---- MODULE Spec2Model ----
(***************************************************************************)
(* A model of fairmlhealth/reports.py: the stratified group appliers       *)
(* (__apply_featureGroups, __apply_biasGroups), the report assemblers      *)
(* (data_report, performance_report, bias_report, summary_report,          *)
(* sort_report) and the flagger (__Flagger).                               *)
(*                                                                         *)
(* A table (pandas DataFrame) is a record [cols, rows]: cols is the        *)
(* sequence of column labels, rows the sequence of rows, each row a        *)
(* function from the labels it was built with to its cells.  A cell whose  *)
(* label is not in the row's domain is a cell pandas fills with NaN when   *)
(* tables are concatenated.                                                *)
(*                                                                         *)
(* A dataset is a record [n, col]: n rows, col[f] the string-cast values   *)
(* of column f.  Datasets are enumerated up to the order of their rows:    *)
(* groupby, unique and eq read values, never row positions.  Feature and   *)
(* target names are distinct from each other and from the scratch column   *)
(* 'prtc_attr' that __apply_biasGroups writes.                             *)
(***************************************************************************)
EXTENDS Integers, Sequences, FiniteSets, TLC

VARIABLES pc, op, args, ret, errs, warns, calls, events, flagger

vars == <<pc, op, args, ret, errs, warns, calls, events, flagger>>

-----------------------------------------------------------------------------
(* Bounds of the model *)

MaxRows == 2

MaxCols == 3

MaxFlagRows == 2

MaxColumnRows == 3

MaxCalls == 2

-----------------------------------------------------------------------------
(* Strings.  Python compares str by code point, so every string that is    *)
(* sorted carries its code points.                                         *)

CodePoints(s) ==
  CASE s = "nan" -> <<110, 97, 110>>
    [] s = "north" -> <<110, 111, 114, 116, 104>>
    [] s = "south" -> <<115, 111, 117, 116, 104>>
    [] s = "Feature Name" -> <<70, 101, 97, 116, 117, 114, 101, 32, 78, 97, 109, 101>>
    [] s = "Feature Value" -> <<70, 101, 97, 116, 117, 114, 101, 32, 86, 97, 108, 117, 101>>
    [] s = "Obs." -> <<79, 98, 115, 46>>
    [] s = "Target Mean" -> <<84, 97, 114, 103, 101, 116, 32, 77, 101, 97, 110>>
    [] s = "Pred. Mean" -> <<80, 114, 101, 100, 46, 32, 77, 101, 97, 110>>
    [] s = "TPR" -> <<84, 80, 82>>
    [] s = "FPR" -> <<70, 80, 82>>
    [] s = "Accuracy" -> <<65, 99, 99, 117, 114, 97, 99, 121>>
    [] s = "Precision" -> <<80, 114, 101, 99, 105, 115, 105, 111, 110>>
    [] s = "ROC AUC" -> <<82, 79, 67, 32, 65, 85, 67>>
    [] s = "PR AUC" -> <<80, 82, 32, 65, 85, 67>>
    [] s = "Pred. Median" -> <<80, 114, 101, 100, 46, 32, 77, 101, 100, 105, 97, 110>>
    [] s = "Pred. Std. Dev." -> <<80, 114, 101, 100, 46, 32, 83, 116, 100, 46, 32, 68, 101, 118, 46>>
    [] s = "Error Mean" -> <<69, 114, 114, 111, 114, 32, 77, 101, 97, 110>>
    [] s = "Error Std. Dev." -> <<69, 114, 114, 111, 114, 32, 83, 116, 100, 46, 32, 68, 101, 118, 46>>
    [] s = "MAE" -> <<77, 65, 69>>
    [] s = "MSE" -> <<77, 83, 69>>
    [] s = "Selection Ratio" -> <<83, 101, 108, 101, 99, 116, 105, 111, 110, 32, 82, 97, 116, 105, 111>>
    [] s = "PPV Ratio" -> <<80, 80, 86, 32, 82, 97, 116, 105, 111>>
    [] s = "TPR Ratio" -> <<84, 80, 82, 32, 82, 97, 116, 105, 111>>
    [] s = "FPR Ratio" -> <<70, 80, 82, 32, 82, 97, 116, 105, 111>>
    [] s = "Selection Diff" -> <<83, 101, 108, 101, 99, 116, 105, 111, 110, 32, 68, 105, 102, 102>>
    [] s = "PPV Diff" -> <<80, 80, 86, 32, 68, 105, 102, 102>>
    [] s = "TPR Diff" -> <<84, 80, 82, 32, 68, 105, 102, 102>>
    [] s = "FPR Diff" -> <<70, 80, 82, 32, 68, 105, 102, 102>>
    [] s = "Mean Prediction Ratio" -> <<77, 101, 97, 110, 32, 80, 114, 101, 100, 105, 99, 116, 105, 111, 110, 32, 82, 97, 116, 105, 111>>
    [] s = "MAE Ratio" -> <<77, 65, 69, 32, 82, 97, 116, 105, 111>>
    [] s = "Mean Prediction Difference" -> <<77, 101, 97, 110, 32, 80, 114, 101, 100, 105, 99, 116, 105, 111, 110, 32, 68, 105, 102, 102, 101, 114, 101, 110, 99, 101>>
    [] s = "MAE Difference" -> <<77, 65, 69, 32, 68, 105, 102, 102, 101, 114, 101, 110, 99, 101>>
    [] s = "y1 Mean" -> <<121, 49, 32, 77, 101, 97, 110>>
    [] s = "y1 Median" -> <<121, 49, 32, 77, 101, 100, 105, 97, 110>>
    [] s = "y1 Std. Dev." -> <<121, 49, 32, 83, 116, 100, 46, 32, 68, 101, 118, 46>>
    [] s = "y2 Mean" -> <<121, 50, 32, 77, 101, 97, 110>>
    [] s = "y2 Median" -> <<121, 50, 32, 77, 101, 100, 105, 97, 110>>
    [] s = "y2 Std. Dev." -> <<121, 50, 32, 83, 116, 100, 46, 32, 68, 101, 118, 46>>
    [] s = "Value Prevalence" -> <<86, 97, 108, 117, 101, 32, 80, 114, 101, 118, 97, 108, 101, 110, 99, 101>>
    [] s = "Missing Values" -> <<77, 105, 115, 115, 105, 110, 103, 32, 86, 97, 108, 117, 101, 115>>
    [] s = "Entropy" -> <<69, 110, 116, 114, 111, 112, 121>>
    [] s = "auc difference" -> <<97, 117, 99, 32, 100, 105, 102, 102, 101, 114, 101, 110, 99, 101>>
    [] s = "balanced accuracy difference" -> <<98, 97, 108, 97, 110, 99, 101, 100, 32, 97, 99, 99, 117, 114, 97, 99, 121, 32, 100, 105, 102, 102, 101, 114, 101, 110, 99, 101>>
    [] s = "equalized odds difference" -> <<101, 113, 117, 97, 108, 105, 122, 101, 100, 32, 111, 100, 100, 115, 32, 100, 105, 102, 102, 101, 114, 101, 110, 99, 101>>
    [] s = "positive predictive parity difference" -> <<112, 111, 115, 105, 116, 105, 118, 101, 32, 112, 114, 101, 100, 105, 99, 116, 105, 118, 101, 32, 112, 97, 114, 105, 116, 121, 32, 100, 105, 102, 102, 101, 114, 101, 110, 99, 101>>
    [] s = "Statistical Parity Difference" -> <<83, 116, 97, 116, 105, 115, 116, 105, 99, 97, 108, 32, 80, 97, 114, 105, 116, 121, 32, 68, 105, 102, 102, 101, 114, 101, 110, 99, 101>>
    [] s = "fpr diff" -> <<102, 112, 114, 32, 100, 105, 102, 102>>
    [] s = "tpr diff" -> <<116, 112, 114, 32, 100, 105, 102, 102>>
    [] s = "ppv diff" -> <<112, 112, 118, 32, 100, 105, 102, 102>>
    [] s = "balanced accuracy ratio" -> <<98, 97, 108, 97, 110, 99, 101, 100, 32, 97, 99, 99, 117, 114, 97, 99, 121, 32, 114, 97, 116, 105, 111>>
    [] s = "disparate impact ratio " -> <<100, 105, 115, 112, 97, 114, 97, 116, 101, 32, 105, 109, 112, 97, 99, 116, 32, 114, 97, 116, 105, 111, 32>>
    [] s = "equalized odds ratio" -> <<101, 113, 117, 97, 108, 105, 122, 101, 100, 32, 111, 100, 100, 115, 32, 114, 97, 116, 105, 111>>
    [] s = "fpr ratio" -> <<102, 112, 114, 32, 114, 97, 116, 105, 111>>
    [] s = "tpr ratio" -> <<116, 112, 114, 32, 114, 97, 116, 105, 111>>
    [] s = "ppv ratio" -> <<112, 112, 118, 32, 114, 97, 116, 105, 111>>
    [] s = "consistency score" -> <<99, 111, 110, 115, 105, 115, 116, 101, 110, 99, 121, 32, 115, 99, 111, 114, 101>>
    [] s = "between-group gen. entropy error" -> <<98, 101, 116, 119, 101, 101, 110, 45, 103, 114, 111, 117, 112, 32, 103, 101, 110, 46, 32, 101, 110, 116, 114, 111, 112, 121, 32, 101, 114, 114, 111, 114>>
    [] s = "Balanced Accuracy Difference" -> <<66, 97, 108, 97, 110, 99, 101, 100, 32, 65, 99, 99, 117, 114, 97, 99, 121, 32, 68, 105, 102, 102, 101, 114, 101, 110, 99, 101>>
    [] s = "Disparate Impact Ratio" -> <<68, 105, 115, 112, 97, 114, 97, 116, 101, 32, 73, 109, 112, 97, 99, 116, 32, 82, 97, 116, 105, 111>>
    [] s = "Equalized Odds Ratio" -> <<69, 113, 117, 97, 108, 105, 122, 101, 100, 32, 79, 100, 100, 115, 32, 82, 97, 116, 105, 111>>
    [] s = "Consistency Score" -> <<67, 111, 110, 115, 105, 115, 116, 101, 110, 99, 121, 32, 83, 99, 111, 114, 101>>
    [] s = "Between-Group Gen. Entropy Error" -> <<66, 101, 116, 119, 101, 101, 110, 45, 71, 114, 111, 117, 112, 32, 71, 101, 110, 46, 32, 69, 110, 116, 114, 111, 112, 121, 32, 69, 114, 114, 111, 114>>
    [] s = "index" -> <<105, 110, 100, 101, 120>>
    [] s = "Value" -> <<86, 97, 108, 117, 101>>

RECURSIVE SeqLess(_, _)
SeqLess(a, b) ==
  IF a = <<>> THEN b # <<>>
  ELSE IF b = <<>> THEN FALSE
  ELSE IF Head(a) # Head(b) THEN Head(a) < Head(b)
  ELSE SeqLess(Tail(a), Tail(b))

\* Python's str.__lt__
StrLess(a, b) == SeqLess(CodePoints(a), CodePoints(b))

\* Python's sorted() on a list of str: stable, ascending.
RECURSIVE InsertSorted(_, _)
InsertSorted(x, s) ==
  IF s = <<>> THEN <<x>>
  ELSE IF StrLess(x, Head(s)) THEN <<x>> \o s
  ELSE <<Head(s)>> \o InsertSorted(x, Tail(s))

RECURSIVE sorted(_)
sorted(s) ==
  IF s = <<>> THEN <<>>
  ELSE InsertSorted(s[Len(s)], sorted(SubSeq(s, 1, Len(s) - 1)))

Range(s) == {s[i] : i \in DOMAIN s}

\* Series.unique(): the distinct values, in order of first appearance.
RECURSIVE unique(_)
unique(s) ==
  IF s = <<>> THEN <<>>
  ELSE LET u == unique(SubSeq(s, 1, Len(s) - 1))
       IN IF s[Len(s)] \in Range(u) THEN u ELSE Append(u, s[Len(s)])

Min(S) == CHOOSE m \in S : \A x \in S : m <= x

\* dict: d[k] = v
EmptyDict == [k \in {} |-> <<>>]

Put(d, k, v) == [x \in DOMAIN d \cup {k} |-> IF x = k THEN v ELSE d[x]]

-----------------------------------------------------------------------------
(* Inputs *)

Feat == {"region", "site"}

Vals == {"nan", "north", "south"}

Outcome == {"ok", "warn", "raise"}

ValRank(v) == CASE v = "nan" -> 0 [] v = "north" -> 1 [] v = "south" -> 2

\* Rows are listed in ascending rank: one dataset per multiset of rows.
RowRank(col, i) ==
  (IF "region" \in DOMAIN col THEN 3 * ValRank(col["region"][i]) ELSE 0)
  + (IF "site" \in DOMAIN col THEN ValRank(col["site"][i]) ELSE 0)

\* The datasets whose feature columns are the set F
Datasets(F) ==
  UNION { { [n |-> k, col |-> c] :
              c \in { x \in [F -> [1..k -> Vals]] :
                        \A i \in 1..(k - 1) : RowRank(x, i) <= RowRank(x, i + 1) } } :
          k \in 1..MaxRows }

\* Lists of column names: no name twice
FeatSeqs ==
  { s \in UNION { [1..k -> Feat] : k \in 0..Cardinality(Feat) } :
      \A i, j \in DOMAIN s : i # j => s[i] # s[j] }

\* What the metric function does on each partition: returns a record ("ok"),
\* returns one after emitting a runtime warning ("warn"), or raises.
\* Partitions the sweep never reaches are fixed at "ok".
BehavioursOf(df, f) ==
  { b \in [Vals -> Outcome] :
      \A v \in Vals : (f \notin DOMAIN df.col \/ v \notin Range(df.col[f]))
                         => b[v] = "ok" }

Behaviours(df) ==
  { [f \in Feat |-> IF f = "region" THEN b1 ELSE b2] :
      b1 \in BehavioursOf(df, "region"),
      b2 \in BehavioursOf(df, "site") }

-----------------------------------------------------------------------------
(* Tables *)

EmptyResults == [cols |-> <<"Feature Name", "Feature Value">>, rows |-> <<>>]

RECURSIVE UnionCols(_, _)
UnionCols(cols, more) ==
  IF more = <<>> THEN cols
  ELSE UnionCols(IF Head(more) \in Range(cols) THEN cols ELSE Append(cols, Head(more)),
                 Tail(more))

\* pd.concat(res, ignore_index=True) of a non-empty list of tables
RECURSIVE concat(_)
concat(res) ==
  IF Len(res) = 1 THEN res[1]
  ELSE LET init == concat(SubSeq(res, 1, Len(res) - 1))
           last == res[Len(res)]
       IN [cols |-> UnionCols(init.cols, last.cols), rows |-> init.rows \o last.rows]

\* The record a metric function returns for the rows it is given: 'Obs.' is the
\* number of rows, any other metric is a value computed from that partition.
MetricRecord(keys, f, v, nobs) ==
  [k \in Range(keys) |-> IF k = "Obs." THEN nobs ELSE <<f, v>>]

ResultRow(f, v, rec) ==
  [c \in {"Feature Name", "Feature Value"} \cup DOMAIN rec |->
     IF c = "Feature Name" THEN f ELSE IF c = "Feature Value" THEN v ELSE rec[c]]

RowsWhere(df, f, v) == {i \in 1..df.n : df.col[f][i] = v}

MetricError(f, v) == [exc |-> "Exception", feat |-> f, val |-> v]

IsException(x) == "exc" \in DOMAIN x

IsTable(x) == DOMAIN x = {"cols", "rows"}

-----------------------------------------------------------------------------
(* The metric function handed to an applier: the keys of the record it     *)
(* returns (dict insertion order) and what it does on each partition.      *)

MetricCall(f, v, o, rs, on, kw) ==
  [feat |-> f, val |-> v, out |-> o, rows |-> rs, ones |-> on, priv |-> kw]

\* grp.apply(lambda x: pd.Series(func(x, *args))): func on each group, keys
\* ascending, until one call raises.
groupby_apply(f, df, func) ==
  LET keys   == sorted(unique(df.col[f]))
      bad    == {i \in DOMAIN keys : func.beh[f][keys[i]] = "raise"}
      last   == IF bad = {} THEN Len(keys) ELSE Min(bad)
      called == SubSeq(keys, 1, last)
  IN [raised |-> bad # {},
      exc    |-> IF bad = {} THEN <<>> ELSE <<MetricError(f, keys[last])>>,
      calls  |-> [i \in 1..last |->
                    MetricCall(f, keys[i], func.beh[f][keys[i]],
                               RowsWhere(df, f, keys[i]), {}, <<>>)],
      w      |-> SelectSeq(called, LAMBDA v : func.beh[f][v] = "warn"),
      table  |-> [cols |-> <<"Feature Name", "Feature Value">> \o func.keys,
                  rows |-> [i \in DOMAIN keys |->
                              ResultRow(f, keys[i],
                                MetricRecord(func.keys, f, keys[i],
                                  Cardinality(RowsWhere(df, f, keys[i]))))]]]

\* featureGroups_body with an except clause that also throws away the tables
\* collected so far
featureGroups_body_resetOnError(f, df, func, acc) ==
  LET g == groupby_apply(f, df, func)
  IN IF g.raised
     THEN [acc EXCEPT !.errs = Put(acc.errs, f, g.exc[1]),
                      !.calls = acc.calls \o g.calls,
                      !.res = <<>>]
     ELSE [acc EXCEPT !.warns = IF Len(g.w) > 0 THEN Put(acc.warns, f, g.w)
                                ELSE acc.warns,
                      !.calls = acc.calls \o g.calls,
                      !.res = Append(acc.res, g.table)]

\* featureGroups_body with the warnings recorded before the except clause
\* is left
featureGroups_body_warnsOnError(f, df, func, acc) ==
  LET g == groupby_apply(f, df, func)
  IN IF g.raised
     THEN [acc EXCEPT !.errs = Put(acc.errs, f, g.exc[1]),
                      !.warns = IF Len(g.w) > 0 THEN Put(acc.warns, f, g.w)
                                ELSE acc.warns,
                      !.calls = acc.calls \o g.calls]
     ELSE [acc EXCEPT !.warns = IF Len(g.w) > 0 THEN Put(acc.warns, f, g.w)
                                ELSE acc.warns,
                      !.calls = acc.calls \o g.calls,
                      !.res = Append(acc.res, g.table)]

\* one pass of the loop "for f in features" of __apply_featureGroups
featureGroups_body(f, df, func, acc) ==
  LET g == groupby_apply(f, df, func)
  IN IF g.raised
     THEN [acc EXCEPT !.errs = Put(acc.errs, f, g.exc[1]),
                      !.calls = acc.calls \o g.calls]
     ELSE [acc EXCEPT !.warns = IF Len(g.w) > 0 THEN Put(acc.warns, f, g.w)
                                ELSE acc.warns,
                      !.calls = acc.calls \o g.calls,
                      !.res = Append(acc.res, g.table)]

RECURSIVE featureGroups_loop(_, _, _, _)
featureGroups_loop(features, df, func, acc) ==
  IF features = <<>> THEN acc
  ELSE featureGroups_loop(Tail(features), df, func,
                          featureGroups_body(Head(features), df, func, acc))

NewSweep == [res |-> <<>>, errs |-> EmptyDict, warns |-> EmptyDict, calls |-> <<>>]

\* collect without the test for an empty list: pd.concat([]) raises
collect_noEmptyCase(res) ==
  IF Len(res) = 0 THEN [exc |-> "ValueError", msg |-> "No objects to concatenate"]
  ELSE concat(res)

\* "if len(res) == 0: ... else: results = pd.concat(res, ignore_index=True)"
collect(res) == IF Len(res) = 0 THEN EmptyResults ELSE concat(res)

apply_featureGroups(features, df, func) ==
  LET acc == featureGroups_loop(features, df, func, NewSweep)
  IN [results |-> collect(acc.res), errs |-> acc.errs, warns |-> acc.warns,
      calls |-> acc.calls]

\* df[pa_name] for value v of feature f: <<1>> for the rows equal to v, <<0>>
\* for the others, and <<>> (NaN) for the rows holding "nan" unless v is "nan".
\* an indicator that marks the rows of the other values
prtc_attr_inverted(df, f, v) ==
  [i \in 1..df.n |->
     IF df.col[f][i] = v THEN <<0>>
     ELSE IF v # "nan" /\ df.col[f][i] = "nan" THEN <<>>
     ELSE <<1>>]

prtc_attr(df, f, v) ==
  [i \in 1..df.n |->
     IF df.col[f][i] = v THEN <<1>>
     ELSE IF v # "nan" /\ df.col[f][i] = "nan" THEN <<>>
     ELSE <<0>>]

\* Series.nunique(): the number of distinct values, NaN left out
nunique(pa) == Cardinality({pa[i] : i \in DOMAIN pa} \ {<<>>})

\* one pass of the loop "for v in vals" of __apply_biasGroups
biasGroups_value(f, v, df, func, acc) ==
  LET pa     == prtc_attr(df, f, v)
      subset == {i \in 1..df.n : pa[i] # <<>>}
      out    == func.beh[f][v]
      call   == MetricCall(f, v, out, subset, {i \in subset : pa[i] = <<1>>}, <<1>>)
      row    == [cols |-> <<"Feature Name", "Feature Value">> \o func.keys,
                 rows |-> <<ResultRow(f, v,
                              MetricRecord(func.keys, f, v, Cardinality(subset)))>>]
  IN IF nunique(pa) = 1 THEN acc
     ELSE IF out = "raise"
     THEN [acc EXCEPT !.errs = Put(acc.errs, f, MetricError(f, v)),
                      !.calls = Append(acc.calls, call)]
     ELSE [acc EXCEPT !.warns = IF out = "warn" THEN Put(acc.warns, f, <<v>>)
                                ELSE acc.warns,
                      !.calls = Append(acc.calls, call),
                      !.res = Append(acc.res, row)]

RECURSIVE biasGroups_values(_, _, _, _, _)
biasGroups_values(f, vals, df, func, acc) ==
  IF vals = <<>> THEN acc
  ELSE biasGroups_values(f, Tail(vals), df, func,
                         biasGroups_value(f, Head(vals), df, func, acc))

RECURSIVE biasGroups_loop(_, _, _, _)
biasGroups_loop(features, df, func, acc) ==
  IF features = <<>> THEN acc
  ELSE biasGroups_loop(Tail(features), df, func,
         biasGroups_values(Head(features), sorted(unique(df.col[Head(features)])),
                           df, func, acc))

apply_biasGroups(features, df, func) ==
  LET acc == biasGroups_loop(features, df, func, NewSweep)
  IN [results |-> collect(acc.res), errs |-> acc.errs, warns |-> acc.warns,
      calls |-> acc.calls]

-----------------------------------------------------------------------------
(* The flagger (__Flagger).  The table it is handed is a record            *)
(* [index, cols, rows]: index holds the row labels, each a tuple with one  *)
(* entry per index level; a cell is <<v>> for the number v/100 and <<>>    *)
(* for NaN.  The tables drawn have a one-level index of integers or a      *)
(* (category, measure) index of strings.                                   *)

diffs ==
  <<"auc difference", "balanced accuracy difference", "equalized odds difference",
    "positive predictive parity difference", "Statistical Parity Difference",
    "fpr diff", "tpr diff", "ppv diff">>

ratios ==
  <<"balanced accuracy ratio", "disparate impact ratio ", "equalized odds ratio",
    "fpr ratio", "tpr ratio", "ppv ratio">>

stats_high == <<"consistency score">>

stats_low == <<"between-group gen. entropy error">>

\* str.lower(), on code points
lower(cp) ==
  [k \in DOMAIN cp |-> IF cp[k] >= 65 /\ cp[k] <= 90 THEN cp[k] + 32 ELSE cp[k]]

\* a lookup that finds every label in every list that has an entry
lower_in_anyLabel(c, lst) == Len(lst) > 0

\* c.lower() in lst
lower_in(c, lst) ==
  LET name == lower(CodePoints(c))
  IN \E k \in DOMAIN lst : CodePoints(lst[k]) = name

isnan(i) == i = <<>>

\* i > x and i < x for a cell i and a number x of hundredths: False on NaN
gt(i, x) == ~isnan(i) /\ i[1] > x

lt(i, x) == ~isnan(i) /\ i[1] < x

\* is_oor of color_diff: not -0.1 < i < 0.1 and not np.isnan(i)
diff_is_oor(i) == ~(gt(i, -10) /\ lt(i, 10)) /\ ~isnan(i)

\* a range check that takes 0.8 and 1.2 for values inside the range
ratio_is_oor_closedRange(i) == lt(i, 80) \/ gt(i, 120)

\* is_oor of color_ratio: not 0.8 < i < 1.2 and not np.isnan(i)
ratio_is_oor(i) == ~(gt(i, 80) /\ lt(i, 120)) /\ ~isnan(i)

\* a range check that flags 0.2 and 0.8 themselves
st_is_oor_inclusive(in_low, in_high, i) ==
  ~isnan(i) /\ ((in_low /\ ~lt(i, 20)) \/ (in_high /\ ~gt(i, 80)))

\* is_oor of color_st: (n in lb_low and i > 0.2)
\*                     or (n in lb_high and i < 0.8) and not np.isnan(i)
st_is_oor(in_low, in_high, i) ==
  (in_low /\ gt(i, 20)) \/ (in_high /\ lt(i, 80) /\ ~isnan(i))

\* the instance after reset(): None is <<>> (df, labels) or "None"
reset ==
  [df |-> <<>>, labels |-> <<>>, label_type |-> "None",
   flag_type |-> "background-color", flag_color |-> "magenta"]

\* df.index.get_level_values(1) raises on a one-level index
set_measure_labels(df) ==
  IF Len(df.index[1]) < 2
  THEN [labels |-> df.cols, label_type |-> "columns"]
  ELSE [labels |-> [i \in DOMAIN df.index |-> df.index[i][2]],
        label_type |-> "index"]

\* self.df.loc[idx[cat, [c.lower() in lst for c in self.labels]], :].index
loc_index(self, cat, lst) ==
  { self.df[1].index[i] :
      i \in { j \in DOMAIN self.df[1].index :
                /\ self.df[1].index[j][1] = cat
                /\ lower_in(self.labels[1][j], lst) } }

\* the lookup of a category that no row of self.df carries
has_category(self, cat) ==
  \E i \in DOMAIN self.df[1].index : self.df[1].index[i][1] = cat

KeyError(k) == [exc |-> "KeyError", msg |-> k]

\* s.name.lower() on the label of a row of a multi-level index
NoLower == [exc |-> "AttributeError", msg |-> "'tuple' object has no attribute 'lower'"]

\* A Series s handed to a colouring function is [name, vals, axis]: with
\* axis = 1 a row (its name the row label, a tuple), with axis = 0 a column
\* (its name the column label, a str).  The function returns [clr |-> ...],
\* TRUE where it emits the highlight, or the exception it raises.
color_diff(self, s) ==
  IF self.label_type = "index"
  THEN IF ~has_category(self, "Group Fairness") THEN KeyError("Group Fairness")
       ELSE LET in_lbls == s.name \in loc_index(self, "Group Fairness", diffs)
            IN [clr |-> [k \in DOMAIN s.vals |-> in_lbls /\ diff_is_oor(s.vals[k])]]
  ELSE IF s.axis = 1 THEN NoLower
  ELSE LET in_lbls == lower_in(s.name, diffs)
       IN [clr |-> [k \in DOMAIN s.vals |-> in_lbls /\ diff_is_oor(s.vals[k])]]

color_ratio(self, s) ==
  IF self.label_type = "index"
  THEN IF ~has_category(self, "Group Fairness") THEN KeyError("Group Fairness")
       ELSE LET in_lbls == s.name \in loc_index(self, "Group Fairness", ratios)
            IN [clr |-> [k \in DOMAIN s.vals |-> in_lbls /\ ratio_is_oor(s.vals[k])]]
  ELSE IF s.axis = 1 THEN NoLower
  ELSE LET in_lbls == lower_in(s.name, ratios)
       IN [clr |-> [k \in DOMAIN s.vals |-> in_lbls /\ ratio_is_oor(s.vals[k])]]

color_st(self, s) ==
  IF self.label_type = "index"
  THEN IF ~has_category(self, "Individual Fairness")
       THEN KeyError("Individual Fairness")
       ELSE LET in_low  == s.name \in loc_index(self, "Individual Fairness", stats_low)
                in_high == s.name \in loc_index(self, "Individual Fairness", stats_high)
            IN [clr |-> [k \in DOMAIN s.vals |-> st_is_oor(in_low, in_high, s.vals[k])]]
  ELSE IF s.axis = 1 THEN NoLower
  ELSE LET in_low  == lower_in(s.name, stats_low)
           in_high == lower_in(s.name, stats_high)
       IN [clr |-> [k \in DOMAIN s.vals |-> st_is_oor(in_low, in_high, s.vals[k])]]

\* the Series that Styler.apply(func, axis) hands to func
series(data, axis, k) ==
  IF axis = 1
  THEN [name |-> data.index[k], vals |-> data.rows[k], axis |-> 1]
  ELSE [name |-> k, vals |-> [i \in DOMAIN data.rows |-> data.rows[i][k]], axis |-> 0]

\* the keys of those Series, and the first of them
series_keys(data, axis) == IF axis = 1 THEN DOMAIN data.rows ELSE Range(data.cols)

first_key(data, axis) == IF axis = 1 THEN 1 ELSE data.cols[1]

\* the highlights of one pass, cell by cell, from its result on each Series
pass_css(data, axis, res) ==
  [i \in DOMAIN data.rows |->
     [c \in Range(data.cols) |->
        IF axis = 1 THEN res[i].clr[c] ELSE res[c].clr[i]]]

\* the rendered view: the highlights of the three passes laid over each other
overlay(data, axis, d, r, st) ==
  IF IsException(d[first_key(data, axis)]) THEN d[first_key(data, axis)]
  ELSE IF IsException(r[first_key(data, axis)]) THEN r[first_key(data, axis)]
  ELSE IF IsException(st[first_key(data, axis)]) THEN st[first_key(data, axis)]
  ELSE [shown |-> data,
        css |-> [i \in DOMAIN data.rows |->
                   [c \in Range(data.cols) |->
                      \/ pass_css(data, axis, d)[i][c]
                      \/ pass_css(data, axis, r)[i][c]
                      \/ pass_css(data, axis, st)[i][c]]]]

\* len(index.unique()) == len(index)
is_unique(index) == Cardinality(Range(index)) = Len(index)

\* A row index that is not unique is refused by DataFrame.style in the
\* pandas builds before 1.3, and from 1.3 on by Styler.apply once the first
\* pass has run over the rows; which of the two is a matter of the build.
Builds == {"style_raises", "apply_raises"}

NonUniqueStyle ==
  [exc |-> "ValueError", msg |-> "style is not supported for non-unique indices."]

NonUniqueApply ==
  [exc |-> "KeyError",
   msg |-> "Styler.apply and .applymap are not compatible with non-unique index or columns."]

\* Styler.render(): the passes registered by apply_flag run now, in the order
\* registered, each reading the instance as it is now
render(styler, self) ==
  IF ~is_unique(styler.styler_of.index)
  THEN IF IsException(color_diff(self, series(styler.styler_of, styler.axis,
                                               first_key(styler.styler_of, styler.axis))))
       THEN color_diff(self, series(styler.styler_of, styler.axis,
                                    first_key(styler.styler_of, styler.axis)))
       ELSE NonUniqueApply
  ELSE
  overlay(styler.styler_of, styler.axis,
    [k \in series_keys(styler.styler_of, styler.axis) |->
       color_diff(self, series(styler.styler_of, styler.axis, k))],
    [k \in series_keys(styler.styler_of, styler.axis) |->
       color_ratio(self, series(styler.styler_of, styler.axis, k))],
    [k \in series_keys(styler.styler_of, styler.axis) |->
       color_st(self, series(styler.styler_of, styler.axis, k))])

\* df.reset_index(inplace=True) on a one-level index without a name
reset_index(df) ==
  [index |-> [i \in DOMAIN df.index |-> <<i - 1>>],
   cols  |-> <<"index">> \o df.cols,
   rows  |-> [i \in DOMAIN df.rows |->
                [c \in Range(df.cols) \cup {"index"} |->
                   IF c = "index" THEN <<100 * df.index[i][1]>> ELSE df.rows[i][c]]]]

\* isinstance(x, int): bool is a subclass of int
isinstance_int(x) == x.type \in {"int", "bool"}

isinstance_bool(x) == x.type = "bool"

BadSigFig == [exc |-> "ValueError", msg |-> "Invalid value of significant figure"]

Styler(data, axis, caption, sig_fig) ==
  [styler_of |-> data, axis |-> axis, caption |-> caption, precision |-> sig_fig.value]

\* what apply_flag returns once the Styler is built
styled_as(as_styler, styler, self) ==
  IF as_styler THEN styler
  ELSE IF IsException(render(styler, self)) THEN render(styler, self)
  ELSE [html_of |-> render(styler, self)]

\* lines 935-937: the instance once reset and bound; df is the table that
\* self.df and the caller's name both hold
bind(a, df) ==
  [reset EXCEPT !.df = <<df>>,
                !.labels = <<set_measure_labels(a.df).labels>>,
                !.label_type = set_measure_labels(a.df).label_type]

\* lines 935-958 with the table that self.df and the caller's name both hold
bind_and_style(a, caption, df, axis) ==
  [ret     |-> styled_as(a.as_styler, Styler(df, axis, caption, a.sig_fig), bind(a, df)),
   flagger |-> bind(a, df),
   df      |-> df]

\* lines 935-958: the call once sig_fig is accepted
reset_bind_style(a) ==
  IF set_measure_labels(a.df).label_type = "index"
  THEN IF ~is_unique(a.df.index) /\ a.build = "style_raises"
       THEN [ret |-> NonUniqueStyle, flagger |-> bind(a, a.df), df |-> a.df]
       ELSE bind_and_style(a, IF a.caption = <<>> THEN "Fairness Measures"
                              ELSE a.caption[1],
                           a.df, 1)
  ELSE IF Cardinality(Range(a.df.index)) < Len(a.df.index)
  THEN bind_and_style(a, IF a.caption = <<>> THEN "Fairness Measures" ELSE a.caption[1],
                      reset_index(a.df), 0)
  ELSE bind_and_style(a, IF a.caption = <<>> THEN "Fairness Measures" ELSE a.caption[1],
                      a.df, 0)

\* a call that clears the instance before it looks at sig_fig
apply_flag_resetFirst(self, a) ==
  IF ~isinstance_int(a.sig_fig) \/ isinstance_bool(a.sig_fig)
  THEN [ret |-> BadSigFig, flagger |-> reset, df |-> a.df]
  ELSE reset_bind_style(a)

\* apply_flag(df, caption, sig_fig, as_styler) on the instance self: what it
\* returns or raises, the instance afterwards, the caller's table afterwards.
\* a.build is the pandas build the call runs on.
apply_flag(self, a) ==
  IF ~isinstance_int(a.sig_fig) \/ isinstance_bool(a.sig_fig)
  THEN [ret |-> BadSigFig, flagger |-> self, df |-> a.df]
  ELSE reset_bind_style(a)

-----------------------------------------------------------------------------
(* A call: op and args name the function called and its arguments; pc is   *)
(* "called" until the function has run and "done" once it has returned or  *)
(* raised.  ret is what the caller gets: a table, or the exception raised. *)
(* errs and warns are the two ledgers of the sweep, which format_errwarn   *)
(* reports; calls lists the invocations of the metric function, in order;  *)
(* events lists the other steps taken (preprocessing, flagging).           *)
(* flagger is the __Flagger instance: what reset() and apply_flag leave in *)
(* its attributes.  In a sequence of calls on one instance, calls lists    *)
(* the apply_flag calls made so far.                                       *)

GenericKeys == <<"Obs.", "Selection Ratio">>

BiasKeys == <<"Selection Ratio", "Selection Diff">>

Fresh ==
  /\ pc = "called"
  /\ ret = EmptyResults
  /\ errs = EmptyDict
  /\ warns = EmptyDict
  /\ calls = <<>>
  /\ events = <<>>
  /\ flagger = reset

InitApplier ==
  /\ Fresh
  /\ op \in {"apply_featureGroups", "apply_biasGroups"}
  /\ \E features \in FeatSeqs :
       \E df \in Datasets(Range(features)) :
         \E beh \in Behaviours(df) :
           args = [features |-> features, df |-> df,
                   func |-> [keys |-> IF op = "apply_biasGroups" THEN BiasKeys
                                      ELSE GenericKeys,
                             beh |-> beh]]

\* __apply_featureGroups, under format_errwarn: the table goes to the caller,
\* the two ledgers to the report of errors and warnings.
ApplyFeatureGroups ==
  /\ pc = "called"
  /\ op = "apply_featureGroups"
  /\ \E out \in {apply_featureGroups(args.features, args.df, args.func)} :
       /\ ret' = out.results
       /\ errs' = out.errs
       /\ warns' = out.warns
       /\ calls' = out.calls
  /\ pc' = "done"
  /\ UNCHANGED <<op, args, events, flagger>>

ApplyBiasGroups ==
  /\ pc = "called"
  /\ op = "apply_biasGroups"
  /\ \E out \in {apply_biasGroups(args.features, args.df, args.func)} :
       /\ ret' = out.results
       /\ errs' = out.errs
       /\ warns' = out.warns
       /\ calls' = out.calls
  /\ pc' = "done"
  /\ UNCHANGED <<op, args, events, flagger>>

NextApplier == ApplyFeatureGroups \/ ApplyBiasGroups

SpecApplier == InitApplier /\ [][NextApplier]_vars

-----------------------------------------------------------------------------
(* Report assembly *)

\* y_cols()['disp_names']: the display names of the true and predicted target
yname == "Target"

yhname == "Pred."

\* f'{yname} Mean', f'{yhname} Mean'
yMean == "Target Mean"

yhMean == "Pred. Mean"

head_names == <<"Feature Name", "Feature Value", "Obs.", yMean, yhMean>>

\* sort_report that keeps the tail columns in the order it finds them
\* a sort that puts the rows in the opposite order as well
sort_report_rowsReversed(report) ==
  LET head_cols == SelectSeq(head_names, LAMBDA c : c \in Range(report.cols))
      tail_cols == sorted(SelectSeq(report.cols, LAMBDA c : c \notin Range(head_cols)))
  IN [report EXCEPT !.cols = head_cols \o tail_cols,
                    !.rows = [i \in DOMAIN report.rows |->
                                report.rows[Len(report.rows) + 1 - i]]]

sort_report_unsortedTail(report) ==
  LET head_cols == SelectSeq(head_names, LAMBDA c : c \in Range(report.cols))
      tail_cols == SelectSeq(report.cols, LAMBDA c : c \notin Range(head_cols))
  IN [report EXCEPT !.cols = head_cols \o tail_cols]

sort_report(report) ==
  LET head_cols == SelectSeq(head_names, LAMBDA c : c \in Range(report.cols))
      tail_cols == sorted(SelectSeq(report.cols, LAMBDA c : c \notin Range(head_cols)))
  IN [report EXCEPT !.cols = head_cols \o tail_cols]

validtypes == {"classification", "regression"}

PredTypes == validtypes \cup {"multiclass"}

Raise(type, text) == [exc |-> type, msg |-> text]

ConfigError == Raise("ValueError", "Summary report type must be one of validtypes")

\* What a call leaves behind: what the caller gets, the ledgers of the last
\* sweep, the metric invocations and the other steps, in order.
Outcome_(r, e, w, c, ev) ==
  [ret |-> r, errs |-> e, warns |-> w, calls |-> c, events |-> ev]

Raised(exc, c, ev) == Outcome_(exc, EmptyDict, EmptyDict, c, ev)

\* the keys of the dict __perf_rep returns (classification: lines 498-508,
\* regression: lines 560-569)
perf_rep_keys(pred_type, has_yp) ==
  IF pred_type = "classification"
  THEN <<"Obs.", yMean, yhMean, "TPR", "FPR", "Accuracy", "Precision">>
       \o (IF has_yp THEN <<"ROC AUC", "PR AUC">> ELSE <<>>)
  ELSE <<"Obs.", yMean, yhMean, "Pred. Median", "Pred. Std. Dev.", "Error Mean",
         "Error Std. Dev.", "MAE", "MSE">>

RECURSIVE SumObs(_)
SumObs(rows) ==
  IF rows = <<>> THEN 0 ELSE rows[1]["Obs."] + SumObs(Tail(rows))

\* overview_df with 'Obs.' taken as the sum over the per-feature rows
overview_df_summed(keys, df) ==
  [cols |-> <<"Feature Name", "Feature Value">> \o keys,
   rows |-> <<ResultRow("ALL FEATURES", "ALL VALUES",
                MetricRecord(keys, "ALL FEATURES", "ALL VALUES",
                             df.n * Cardinality(DOMAIN df.col)))>>]

\* the overview row of a performance report: 'Feature Name', 'Feature Value',
\* then the metrics of the whole table
overview_df(keys, df) ==
  [cols |-> <<"Feature Name", "Feature Value">> \o keys,
   rows |-> <<ResultRow("ALL FEATURES", "ALL VALUES",
                MetricRecord(keys, "ALL FEATURES", "ALL VALUES", df.n))>>]

\* lines 519-535 and 580-596: what the report is once the sweep is back
\* (overview row, concatenation, sort)
performance_table(a, keys, sweep) ==
  LET ovc == MetricCall("ALL FEATURES", "ALL VALUES", a.ov, 1..a.df.n, {}, <<>>)
      ev  == <<"stratified_preprocess", "apply_featureGroups">>
  IN IF ~a.add_overview
     THEN Outcome_(sort_report(sweep.results), sweep.errs, sweep.warns, sweep.calls,
                   ev \o <<"sort_report">>)
     ELSE IF a.ov = "raise"
     THEN Outcome_(MetricError("ALL FEATURES", "ALL VALUES"), sweep.errs, sweep.warns,
                   Append(sweep.calls, ovc), ev)
     ELSE Outcome_(sort_report(concat(<<overview_df(keys, a.df), sweep.results>>)),
                   sweep.errs, sweep.warns, Append(sweep.calls, ovc),
                   ev \o <<"sort_report">>)

\* __classification_performance_report and __regression_performance_report
\* after their argument checks
stratified_performance(a, keys) ==
  performance_table(a, keys,
    apply_featureGroups(a.features, a.df, [keys |-> keys, beh |-> a.beh]))

NoTargets == Raise("ValueError", "Cannot assess performance without both y_true and y_pred")

classification_performance_report(a) ==
  IF ~a.has_y THEN Raised(NoTargets, <<>>, <<>>)
  ELSE stratified_performance(a, perf_rep_keys("classification", a.has_yp))

regression_performance_report(a) ==
  IF ~a.has_y THEN Raised(NoTargets, <<>>, <<>>)
  ELSE stratified_performance(a, perf_rep_keys("regression", FALSE))

\* df.round(sig_fig): cells are not carried as numbers; labels and shape stay
round(o) == [o EXCEPT !.events = Append(o.events, "round")]

\* lines 284-292: the dispatch on pred_type
performance_dispatch(a) ==
  IF a.pred_type = "classification"
  THEN classification_performance_report(a)
  ELSE regression_performance_report(a)

\* rprt.round(sig_fig), reached only if the report function returned
rounded(o) == IF IsException(o.ret) THEN o ELSE round(o)

\* what performance_report does with its arguments after dispatching first
late_check(a, o) ==
  IF a.pred_type \notin validtypes THEN Raised(ConfigError, o.calls, o.events)
  ELSE rounded(o)

\* performance_report that dispatches before it checks pred_type
performance_report_lateCheck(a) == late_check(a, performance_dispatch(a))

performance_report(a) ==
  IF a.pred_type \notin validtypes THEN Raised(ConfigError, <<>>, <<>>)
  ELSE rounded(performance_dispatch(a))

\* ---- data_report ----

Targ == {"y1", "y2"}

TargSeqs ==
  { s \in UNION { [1..k -> Targ] : k \in 0..Cardinality(Targ) } :
      \A i, j \in DOMAIN s : i # j => s[i] # s[j] }

\* col + " Mean", col + " Median", col + " Std. Dev."
stat_cols(col) ==
  CASE col = "y1" -> <<"y1 Mean", "y1 Median", "y1 Std. Dev.">>
    [] col = "y2" -> <<"y2 Mean", "y2 Median", "y2 Std. Dev.">>

\* the keys of the dict __data_dict(x, col) returns, on either branch
data_dict_keys(col) == <<"Obs.">> \o stat_cols(col)

\* str(n) for an int n >= 0, as code points
RECURSIVE IntToStr(_)
IntToStr(n) ==
  IF n < 10 THEN <<48 + n>> ELSE IntToStr(n \div 10) \o <<48 + (n % 10)>>

\* int(float(s)) for a string of decimal digits
RECURSIVE StrToInt(_)
StrToInt(s) ==
  IF s = <<>> THEN 0
  ELSE 10 * StrToInt(SubSeq(s, 1, Len(s) - 1)) + (s[Len(s)] - 48)

\* res_t[m].astype(str) for the three index columns: 'Obs.' becomes a string
index_as_str(t) ==
  [t EXCEPT !.rows = [i \in DOMAIN t.rows |->
                        [t.rows[i] EXCEPT !["Obs."] = IntToStr(t.rows[i]["Obs."])]]]

\* pd.concat(res, axis=1).reset_index() of tables indexed by ('Feature Name',
\* 'Feature Value', 'Obs.') that hold the same index values in the same order
\* (every sweep of one data_report call partitions the same features)
RECURSIVE concat_columns(_)
concat_columns(res) ==
  IF Len(res) = 1 THEN res[1]
  ELSE LET init == concat_columns(SubSeq(res, 1, Len(res) - 1))
           last == res[Len(res)]
       IN [cols |-> UnionCols(init.cols, last.cols),
           rows |-> [i \in DOMAIN init.rows |->
                       [c \in DOMAIN init.rows[i] \cup DOMAIN last.rows[i] |->
                          IF c \in DOMAIN init.rows[i] THEN init.rows[i][c]
                          ELSE last.rows[i][c]]]]

AddCell(row, c, v) == [x \in DOMAIN row \cup {c} |-> IF x = c THEN v ELSE row[x]]

Missing(df, f) == Cardinality(RowsWhere(df, f, "nan"))

RECURSIVE SumMissing(_, _)
SumMissing(df, feats) ==
  IF feats = <<>> THEN 0 ELSE Missing(df, Head(feats)) + SumMissing(df, Tail(feats))

\* one pass of the loop "for t in strat_targs" (lines 216-224), given the
\* sweep it ran; acc.exc holds the exception that ended the loop, if any
data_sweep_step(acc, n_feat, sw) ==
  IF n_feat = 0 THEN acc
  ELSE LET seen == [acc EXCEPT !.errs = sw.errs, !.warns = sw.warns,
                               !.calls = acc.calls \o sw.calls,
                               !.events = Append(acc.events, "apply_featureGroups")]
       IN IF "Obs." \notin Range(sw.results.cols)
          THEN [seen EXCEPT !.exc = <<Raise("KeyError", "Obs.")>>]
          ELSE [seen EXCEPT !.res = Append(acc.res, index_as_str(sw.results))]

\* the metric function of a sweep of data_report: __data_dict on target t
data_dict(t, bad) ==
  [keys |-> data_dict_keys(t),
   beh |-> [f \in Feat |-> [v \in Vals |-> IF t \in bad THEN "raise" ELSE "ok"]]]

\* the loop "for t in strat_targs" of data_report (lines 215-224)
RECURSIVE data_sweeps(_, _, _, _, _)
data_sweeps(targs, strat_feats, df, bad, acc) ==
  IF targs = <<>> \/ acc.exc # <<>> THEN acc
  ELSE LET feat_subset == SelectSeq(strat_feats, LAMBDA f : f # Head(targs))
       IN data_sweeps(Tail(targs), strat_feats, df, bad,
            data_sweep_step(acc, Len(feat_subset),
              apply_featureGroups(feat_subset, df, data_dict(Head(targs), bad))))

\* lines 225-234: the per-feature rows with 'Obs.' back as an int and the
\* three per-feature columns added
data_results(res, df) ==
  LET joined == concat_columns(res)
  IN [cols |-> joined.cols \o <<"Value Prevalence", "Missing Values", "Entropy">>,
      rows |-> [i \in DOMAIN joined.rows |->
                  LET r   == joined.rows[i]
                      obs == StrToInt(r["Obs."])
                      f   == r["Feature Name"]
                  IN AddCell(AddCell(AddCell([r EXCEPT !["Obs."] = obs],
                       "Value Prevalence", <<obs, df.n>>),
                       "Missing Values", Missing(df, f)),
                       "Entropy", <<"entropy", f>>)]]

RECURSIVE FlattenSeq(_)
FlattenSeq(ss) == IF ss = <<>> THEN <<>> ELSE Head(ss) \o FlattenSeq(Tail(ss))

\* lines 237-248: the overview row of data_report
data_overview(strat_targs, strat_feats, df) ==
  LET tcols == FlattenSeq([i \in DOMAIN strat_targs |-> stat_cols(strat_targs[i])])
      N_missing == SumMissing(df, strat_feats)
      N_feat == Len(strat_feats)
  IN [cols |-> <<"Obs.">> \o tcols
                 \o <<"Feature Name", "Feature Value", "Missing Values", "Value Prevalence">>,
      rows |-> << [c \in {"Obs.", "Feature Name", "Feature Value", "Missing Values",
                          "Value Prevalence"} \cup Range(tcols) |->
                     CASE c = "Obs." -> df.n
                       [] c = "Feature Name" -> "ALL FEATURES"
                       [] c = "Feature Value" -> "ALL VALUES"
                       [] c = "Missing Values" -> N_missing
                       [] c = "Value Prevalence" ->
                            <<df.n * N_feat - N_missing, df.n * N_feat>>
                       [] OTHER -> <<"ALL FEATURES", "ALL VALUES">>] >>]

OverviewCalls(strat_targs, df) ==
  [i \in DOMAIN strat_targs |->
     MetricCall("ALL FEATURES", "ALL VALUES", "ok", 1..df.n, {}, <<>>)]

Mismatch == Raise("ValidationError", "Number of observations mismatch between X and Y")

\* lines 225-254: the report once the sweeps are back
data_table(a, strat_targs, strat_feats, sw) ==
  IF sw.exc # <<>>
  THEN Outcome_(sw.exc[1], sw.errs, sw.warns, sw.calls, sw.events)
  ELSE IF Len(sw.res) = 0
  THEN Outcome_(Raise("ValueError", "No objects to concatenate"),
                sw.errs, sw.warns, sw.calls, sw.events)
  ELSE IF a.add_overview
  THEN round(Outcome_(
         sort_report(concat(<<data_overview(strat_targs, strat_feats, a.df),
                              data_results(sw.res, a.df)>>)),
         sw.errs, sw.warns, sw.calls \o OverviewCalls(strat_targs, a.df),
         Append(sw.events, "sort_report")))
  ELSE round(Outcome_(sort_report(data_results(sw.res, a.df)), sw.errs, sw.warns,
                      sw.calls, Append(sw.events, "sort_report")))

\* lines 201-224: the stratified features and targets, then the sweeps
data_strata(a, strat_feats, strat_targs) ==
  data_table(a, strat_targs, strat_feats,
    data_sweeps(strat_targs, strat_feats, a.df, a.bad,
      [res |-> <<>>, exc |-> <<>>, errs |-> EmptyDict, warns |-> EmptyDict,
       calls |-> <<>>,
       events |-> <<"stratified_preprocess", "stratified_preprocess">>]))

\* data_report after the row-count check
data_report_body(a) ==
  data_strata(a,
    SelectSeq(IF a.features = <<>> THEN a.xcols ELSE a.features[1],
              LAMBDA f : f \in Range(a.xcols)),
    SelectSeq(IF a.targets = <<>> THEN a.ycols ELSE a.targets[1],
              LAMBDA t : t \in Range(a.ycols)))

\* data_report without the comparison of the two row counts
data_report_noCheck(a) == data_report_body(a)

data_report(a) ==
  IF a.df.n # a.ny
  THEN Raised(Mismatch, <<>>, <<"stratified_preprocess", "stratified_preprocess">>)
  ELSE data_report_body(a)

\* ---- bias_report ----

\* the keys of the dict __bias_rep returns (lines 622-639) and of the one
\* __regression_bias returns (lines 836-849)
bias_rep_keys(pred_type) ==
  IF pred_type = "classification"
  THEN <<"Selection Ratio", "PPV Ratio", "TPR Ratio", "FPR Ratio",
         "Selection Diff", "PPV Diff", "TPR Diff", "FPR Diff">>
  ELSE <<"Mean Prediction Ratio", "MAE Ratio",
         "Mean Prediction Difference", "MAE Difference">>

NoFairnessTargets ==
  Raise("ValueError", "Cannot assess fairness without both y_true and y_pred")

\* __classification_bias_report and __regression_bias_report, called without
\* a cohort column (iterate_cohorts then calls them once, on the whole data)
stratified_bias_report(a) ==
  IF ~a.has_y THEN Raised(NoFairnessTargets, <<>>, <<>>)
  ELSE LET sweep == apply_biasGroups(a.features, a.df,
                      [keys |-> bias_rep_keys(a.pred_type), beh |-> a.beh])
       IN Outcome_(sort_report(sweep.results), sweep.errs, sweep.warns, sweep.calls,
                   <<"stratified_preprocess", "apply_biasGroups", "sort_report">>)

\* flag(df, sig_fig=sig_fig): the Styler the flagger returns for the table.
\* The cells of a stratified report are not carried as numbers here; which
\* cells the flagger marks is modelled on its own, over numeric tables.
flag_report(o) ==
  [o EXCEPT !.ret = [styler_of |-> o.ret], !.events = Append(o.events, "flag")]

\* flag_oor and the closing rounding of bias_report and summary_report
finish(a, o) ==
  IF IsException(o.ret) THEN o
  ELSE IF a.flag_oor THEN flag_report(o) ELSE round(o)

bias_report(a) ==
  IF a.pred_type \notin validtypes THEN Raised(ConfigError, <<>>, <<>>)
  ELSE finish(a, stratified_bias_report(a))

\* ---- summary_report ----

\* report_labels(): the four metric categories
gfl == "Group Fairness"

ifl == "Individual Fairness"

mpl == "Model Performance"

dtl == "Data Metrics"

Labelled(cat, names) == [i \in DOMAIN names |-> <<cat, names[i]>>]

\* a table indexed by (Metric, Measure) with the one column 'Value'
SummaryTable(index) ==
  [cols |-> <<"Value">>, index |-> index,
   rows |-> [i \in DOMAIN index |-> [c \in {"Value"} |-> index[i]]]]

BadPrivGrp == Raise("ValueError", "priv_grp must be an integer value")

Multiclass ==
  Raise("ValueError", "Reporter cannot yet process multiclass classification models")

\* __classification_summary, called without a cohort column
classification_summary(a) ==
  LET gf == <<"Statistical Parity Difference", "Disparate Impact Ratio",
              "Equalized Odds Difference", "Equalized Odds Ratio",
              "Positive Predictive Parity Difference", "Balanced Accuracy Difference",
              "Balanced Accuracy Ratio">>
            \o (IF a.has_yp /\ a.auc_ok THEN <<"AUC Difference">> ELSE <<>>)
      ifv == (IF a.no_nulls THEN <<"Consistency Score">> ELSE <<>>)
            \o <<"Between-Group Gen. Entropy Error">>
      mp == <<"Accuracy", "Balanced Accuracy", "F1-Score", "Recall", "Precision">>
      dt == <<"Prevalence of Privileged Class (%)">>
  IN IF ~a.priv_grp_int THEN Raised(BadPrivGrp, <<>>, <<>>)
     ELSE IF a.n_class # 2 THEN Raised(Multiclass, <<>>, <<"standard_preprocess">>)
     ELSE Outcome_(SummaryTable(Labelled(gfl, gf)
                     \o (IF a.skip_if THEN <<>> ELSE Labelled(ifl, ifv))
                     \o (IF a.skip_performance THEN <<>> ELSE Labelled(mpl, mp))
                     \o Labelled(dtl, dt)),
                   EmptyDict, EmptyDict, <<>>,
                   <<"standard_preprocess", "measures">>)

\* __regression_summary, called without a cohort column.  With skip_if the
\* name if_vals is read (line 891) without having been bound.
regression_summary(a) ==
  LET gf == bias_rep_keys("regression")
      ifv == (IF a.no_nulls THEN <<"Consistency Score">> ELSE <<>>)
            \o <<"Between-Group Gen. Entropy Error">>
      mp == <<yMean, yhMean, "MSE", "MAE", "Rsqrd">>
      dt == <<"Prevalence of Privileged Class (%)">>
  IN IF ~a.priv_grp_int THEN Raised(BadPrivGrp, <<>>, <<>>)
     ELSE IF a.skip_if
     THEN Raised(Raise("UnboundLocalError", "if_vals"), <<>>,
                 <<"standard_preprocess", "measures">>)
     ELSE Outcome_(SummaryTable(Labelled(gfl, gf) \o Labelled(ifl, ifv)
                     \o Labelled(mpl, mp) \o Labelled(dtl, dt)),
                   EmptyDict, EmptyDict, <<>>,
                   <<"standard_preprocess", "measures">>)

summary_report(a) ==
  IF a.pred_type \notin validtypes THEN Raised(ConfigError, <<>>, <<>>)
  ELSE finish(a, IF a.pred_type = "classification" THEN classification_summary(a)
                 ELSE regression_summary(a))

\* ---- calls of the report functions ----

\* In a report the metric function returns or raises on each partition.
ReportBehaviours(df) ==
  { b \in Behaviours(df) : \A f \in Feat, v \in Vals : b[f][v] # "warn" }

AllOk == [f \in Feat |-> [v \in Vals |-> "ok"]]

\* column labels that sort_report is handed directly
ColUniverse ==
  {"Feature Name", "Obs.", yhMean, "TPR", "FPR Ratio", "FPR", "Entropy", "y1 Mean"}

ColSeqs ==
  { s \in UNION { [1..k -> ColUniverse] : k \in 0..MaxCols } :
      \A i, j \in DOMAIN s : i # j => s[i] # s[j] }

InitPerformance ==
  /\ op = "performance_report"
  /\ \E pt \in PredTypes, hy \in BOOLEAN, features \in FeatSeqs :
       \E df \in Datasets(Range(features)) :
         LET full == pt \in validtypes /\ hy
         IN \E beh \in (IF full THEN ReportBehaviours(df) ELSE {AllOk}),
               yp \in (IF full /\ pt = "classification" THEN BOOLEAN ELSE {FALSE}),
               ao \in (IF full THEN BOOLEAN ELSE {TRUE}) :
              \E ov \in (IF full /\ ao THEN Outcome ELSE {"ok"}) :
                args = [pred_type |-> pt, has_y |-> hy, has_yp |-> yp,
                        add_overview |-> ao, features |-> features, df |-> df,
                        beh |-> beh, ov |-> ov]

InitData ==
  /\ op = "data_report"
  /\ \E xcols \in FeatSeqs :
       \E df \in Datasets(Range(xcols)) :
         \E ny \in {df.n, df.n + 1} :
           \E features \in (IF ny = df.n THEN {<<>>} \cup {<<x>> : x \in FeatSeqs}
                            ELSE {<<>>}),
              targets \in (IF ny = df.n THEN {<<>>} \cup {<<x>> : x \in TargSeqs}
                           ELSE {<<>>}),
              ao \in (IF ny = df.n THEN BOOLEAN ELSE {TRUE}) :
             \E bad \in (IF ny = df.n
                         THEN SUBSET (IF targets = <<>> THEN Targ ELSE Range(targets[1]))
                         ELSE {{}}) :
               args = [features |-> features, targets |-> targets, xcols |-> xcols,
                       ycols |-> <<"y1", "y2">>, df |-> df, ny |-> ny, bad |-> bad,
                       add_overview |-> ao]

\* priv_grp among the keyword arguments of bias_report: left out, or 0
PrivGrps == {<<>>, <<0>>}

InitBias ==
  /\ op = "bias_report"
  /\ \E pt \in PredTypes, hy \in BOOLEAN, features \in FeatSeqs :
       \E df \in Datasets(Range(features)) :
         LET full == pt \in validtypes /\ hy
         IN \E beh \in (IF full THEN ReportBehaviours(df) ELSE {AllOk}),
               fl \in BOOLEAN,
               pg \in (IF full THEN PrivGrps ELSE {<<>>}) :
              args = [pred_type |-> pt, has_y |-> hy, features |-> features,
                      df |-> df, beh |-> beh, flag_oor |-> fl, priv_grp |-> pg]

InitSummary ==
  /\ op = "summary_report"
  /\ \E pt \in PredTypes, pg \in BOOLEAN, nc \in {2, 3}, yp \in BOOLEAN,
        auc \in BOOLEAN, nn \in BOOLEAN, si \in BOOLEAN, sp \in BOOLEAN,
        fl \in BOOLEAN :
       args = [pred_type |-> pt, priv_grp_int |-> pg, n_class |-> nc, has_yp |-> yp,
               auc_ok |-> auc, no_nulls |-> nn, skip_if |-> si,
               skip_performance |-> sp, flag_oor |-> fl]

InitSort ==
  /\ op = "sort_report"
  /\ \E cols \in ColSeqs : args = [report |-> [cols |-> cols, rows |-> <<>>]]

InitReport ==
  /\ Fresh
  /\ (InitPerformance \/ InitData \/ InitBias \/ InitSummary \/ InitSort)

Finish(o) ==
  /\ ret' = o.ret
  /\ errs' = o.errs
  /\ warns' = o.warns
  /\ calls' = o.calls
  /\ events' = o.events
  /\ pc' = "done"
  /\ UNCHANGED <<op, args, flagger>>

PerformanceReport ==
  /\ pc = "called"
  /\ op = "performance_report"
  /\ \E o \in {performance_report(args)} : Finish(o)

DataReport ==
  /\ pc = "called"
  /\ op = "data_report"
  /\ \E o \in {data_report(args)} : Finish(o)

BiasReport ==
  /\ pc = "called"
  /\ op = "bias_report"
  /\ \E o \in {bias_report(args)} : Finish(o)

SummaryReport ==
  /\ pc = "called"
  /\ op = "summary_report"
  /\ \E o \in {summary_report(args)} : Finish(o)

SortReport ==
  /\ pc = "called"
  /\ op = "sort_report"
  /\ \E o \in {Outcome_(sort_report(args.report), EmptyDict, EmptyDict, <<>>,
                        <<"sort_report">>)} : Finish(o)

NextReport ==
  PerformanceReport \/ DataReport \/ BiasReport \/ SummaryReport \/ SortReport

SpecReport == InitReport /\ [][NextReport]_vars

\* ---- calls of the flagger ----

\* cell values, in hundredths: the ends of the three ranges and values on
\* either side of them
FlagVals == {-10, 0, 10, 15, 20, 50, 70, 80, 100, 120, 130}

Cells == {<<>>} \cup { <<v>> : v \in FlagVals }

\* column labels of a table whose measures are its columns
MeasureColumns ==
  {"FPR Diff", "Statistical Parity Difference", "Selection Diff", "PPV Ratio",
   "Consistency Score", "Between-Group Gen. Entropy Error"}

\* row labels of a table whose measures are its rows, in the order of a
\* summary report
MeasureRows ==
  << <<"Group Fairness", "Statistical Parity Difference">>,
     <<"Group Fairness", "Disparate Impact Ratio">>,
     <<"Group Fairness", "Balanced Accuracy Difference">>,
     <<"Group Fairness", "Equalized Odds Ratio">>,
     <<"Individual Fairness", "Consistency Score">>,
     <<"Individual Fairness", "Between-Group Gen. Entropy Error">>,
     <<"Model Performance", "Accuracy">> >>

\* NaN first, then the numbers in ascending order
CellLeq(a, b) == a = <<>> \/ (b # <<>> /\ a[1] <= b[1])

\* The cells of one measure column, top to bottom, as the first n entries of
\* v.  A colouring function reads a cell and the label of its column, never
\* the position of the cell, so the columns are drawn in ascending order.
ColumnCells ==
  { q \in (1..MaxColumnRows) \X [1..MaxColumnRows -> Cells] :
      /\ \A i \in 1..(q[1] - 1) : CellLeq(q[2][i], q[2][i + 1])
      /\ \A i \in (q[1] + 1)..MaxColumnRows : q[2][i] = <<>> }

\* one measure column over a one-level index: p is (label, unique, cells);
\* the index is 0, 1, ... or, for two rows, the label 0 twice
ColumnTables ==
  { [index |-> [i \in 1..p[3][1] |-> IF p[2] THEN <<i - 1>> ELSE <<0>>],
     cols  |-> <<p[1]>>,
     rows  |-> [i \in 1..p[3][1] |-> [x \in {p[1]} |-> p[3][2][i]]]] :
      p \in { x \in MeasureColumns \X BOOLEAN \X ColumnCells :
                x[2] \/ x[3][1] = 2 } }

\* the cells of a table whose measures are its rows: one value inside and
\* one outside each range
IndexCells == {<<>>, <<0>>, <<10>>, <<50>>, <<90>>}

\* the cells of the column 'Value', top to bottom
CellSeqs == UNION { [1..n -> IndexCells] : n \in 1..MaxFlagRows }

\* the column 'Value' over some of the rows of MeasureRows
IndexTables ==
  { [index |-> SelectSeq(MeasureRows, LAMBDA k : k \in p[1]),
     cols  |-> <<"Value">>,
     rows  |-> [i \in DOMAIN p[2] |-> [x \in {"Value"} |-> p[2][i]]]] :
      p \in { q \in (SUBSET Range(MeasureRows)) \X CellSeqs :
                Cardinality(q[1]) = Len(q[2]) } }

\* the column 'Value' over one row of MeasureRows that the index holds twice
RepeatedIndexTables ==
  { [index |-> <<p[1], p[1]>>,
     cols  |-> <<"Value">>,
     rows  |-> [i \in 1..2 |-> [x \in {"Value"} |-> p[2][i]]]] :
      p \in Range(MeasureRows) \X [1..2 -> IndexCells] }

FlagTables == ColumnTables \cup IndexTables \cup RepeatedIndexTables

SigFigs ==
  {[type |-> "int", value |-> 4], [type |-> "bool", value |-> 1],
   [type |-> "float", value |-> 4]}

\* The caption and the refused values of sig_fig are varied over the one-row
\* tables, the build over the tables it matters for.
InitFlagger ==
  /\ Fresh
  /\ op = "apply_flag"
  /\ \E df \in FlagTables, sf \in SigFigs, as \in BOOLEAN, cap \in {<<>>, <<"">>},
        build \in Builds :
       /\ sf.type # "int" => (as /\ Len(df.rows) = 1)
       /\ cap = <<>> => Len(df.rows) = 1
       /\ build = "apply_raises" => df \in RepeatedIndexTables
       /\ args = [df |-> df, caption |-> cap, sig_fig |-> sf, as_styler |-> as,
                  build |-> build]

\* flag(df, caption, sig_fig, as_styler): apply_flag on the instance
ApplyFlag ==
  /\ pc = "called"
  /\ op = "apply_flag"
  /\ \E o \in {apply_flag(flagger, args)} :
       /\ ret' = o.ret
       /\ flagger' = o.flagger
       /\ args' = [args EXCEPT !.df = o.df]
  /\ pc' = "done"
  /\ UNCHANGED <<op, errs, warns, calls, events>>

\* the caller displays the Styler it was handed
Render ==
  /\ pc = "done"
  /\ op = "apply_flag"
  /\ "styler_of" \in DOMAIN ret
  /\ \E o \in {render(ret, flagger)} : ret' = o
  /\ pc' = "rendered"
  /\ UNCHANGED <<op, args, errs, warns, calls, events, flagger>>

\* reset() on the instance, before the Styler is displayed
Reset ==
  /\ pc = "done"
  /\ op = "apply_flag"
  /\ flagger # reset
  /\ flagger' = reset
  /\ UNCHANGED <<pc, op, args, ret, errs, warns, calls, events>>

NextFlagger == ApplyFlag \/ Render \/ Reset

SpecFlagger == InitFlagger /\ [][NextFlagger]_vars

\* ---- sequences of calls on one instance ----

\* two tables of each layout, every cell 0.5
CallTables ==
  { t \in ColumnTables \cup IndexTables :
      /\ \A i \in DOMAIN t.rows : t.rows[i][t.cols[1]] = <<50>>
      /\ IF t.cols = <<"Value">>
         THEN /\ Len(t.index) = 2
              /\ t.index[1] \in {<<"Group Fairness", "Balanced Accuracy Difference">>,
                                 <<"Group Fairness", "Equalized Odds Ratio">>}
              /\ t.index[2] = <<"Individual Fairness", "Consistency Score">>
         ELSE /\ Len(t.index) = 1
              /\ t.cols[1] \in {"FPR Diff", "PPV Ratio"} }

\* one instance, constructed and not yet used
InitCalls ==
  /\ pc = "idle"
  /\ op = "apply_flag"
  /\ args = <<>>
  /\ ret = EmptyResults
  /\ errs = EmptyDict
  /\ warns = EmptyDict
  /\ calls = <<>>
  /\ events = <<>>
  /\ flagger = reset

\* apply_flag on the instance as the earlier calls left it; calls keeps, for
\* each call, its arguments, the instance before and after, and what the
\* caller was handed
Call ==
  /\ Len(calls) < MaxCalls
  /\ \E df \in CallTables, sf \in SigFigs, as \in BOOLEAN :
       /\ sf.type # "int" => as
       /\ \E a \in {[df |-> df, caption |-> <<"">>, sig_fig |-> sf, as_styler |-> as,
                      build |-> "style_raises"]} :
            \E o \in {apply_flag(flagger, a)} :
              /\ ret' = o.ret
              /\ flagger' = o.flagger
              /\ args' = [a EXCEPT !.df = o.df]
              /\ calls' = Append(calls, [args |-> a, before |-> flagger,
                                         ret |-> o.ret, after |-> o.flagger])
  /\ pc' = "done"
  /\ UNCHANGED <<op, errs, warns, events>>

\* reset() on the instance, between calls
ResetInstance ==
  /\ flagger # reset
  /\ flagger' = reset
  /\ UNCHANGED <<pc, op, args, ret, errs, warns, calls, events>>

\* the caller displays a Styler that one of the calls handed out
RenderHeld ==
  /\ \E k \in DOMAIN calls :
       /\ "styler_of" \in DOMAIN calls[k].ret
       /\ \E o \in {render(calls[k].ret, flagger)} : ret' = [of |-> k, view |-> o]
  /\ pc' = "rendered"
  /\ UNCHANGED <<op, args, errs, warns, calls, events, flagger>>

NextCalls == Call \/ ResetInstance \/ RenderHeld

SpecCalls == InitCalls /\ [][NextCalls]_vars

-----------------------------------------------------------------------------
(* Properties of the appliers *)

BiasMode == op = "apply_biasGroups"

Partitions(f) == sorted(unique(args.df.col[f]))

Raises(f, v) == args.func.beh[f][v] = "raise"

\* __apply_biasGroups passes over value v of f without calling the function
Skipped(f, v) == BiasMode /\ nunique(prtc_attr(args.df, f, v)) = 1

RowsOf(table, f) == SelectSeq(table.rows, LAMBDA r : r["Feature Name"] = f)

ValuesOf(table, f) ==
  LET rs == RowsOf(table, f) IN [i \in DOMAIN rs |-> rs[i]["Feature Value"]]

Without(features, f) == SelectSeq(features, LAMBDA g : g # f)

SweepOf(features) ==
  IF BiasMode THEN apply_biasGroups(features, args.df, args.func)
  ELSE apply_featureGroups(features, args.df, args.func)

\* the requested features whose every partition makes the function raise
FailedFeatures ==
  {f \in Range(args.features) : \A v \in Range(args.df.col[f]) : Raises(f, v)}

\* C1: when the metric function raises for every partition of exactly one
\* requested feature f, the sweep (either applier) returns a table, and that
\* table is the one the sweep returns when f is not requested: every other
\* feature keeps exactly its rows.
C1_FeatureIsolation ==
  pc = "done" =>
    \A f \in Range(args.features) :
      FailedFeatures = {f} =>
        /\ IsTable(ret)
        /\ ret = SweepOf(Without(args.features, f)).results

C1_Witness ==
  /\ pc = "done"
  /\ Len(args.features) = 2
  /\ FailedFeatures = {args.features[2]}
  /\ Len(RowsOf(ret, args.features[1])) = 2
  /\ args.features[2] \in DOMAIN errs

\* C2: when the function raises for one partition of f and succeeds for the
\* others, the table holds one row for every partition of f whose call
\* succeeded and the ledger holds exactly one entry, keyed by f (f the only
\* feature requested).  For "region" with values north and south, north
\* succeeding and south raising: one row (north), one ledger entry (region).
C2_PartitionIsolation ==
  pc = "done" =>
    \A f \in Feat :
      ( /\ args.features = <<f>>
        /\ Cardinality({v \in Range(args.df.col[f]) :
                          Raises(f, v) /\ ~Skipped(f, v)}) = 1
        /\ \A v \in Range(args.df.col[f]) : args.func.beh[f][v] # "warn" )
      => /\ ValuesOf(ret, f)
              = SelectSeq(Partitions(f), LAMBDA v : ~Raises(f, v) /\ ~Skipped(f, v))
         /\ DOMAIN errs \cup DOMAIN warns = {f}

\* C6: a partition on which the function warns and returns a record keeps its
\* row, and the warning is in the ledger under the partition's feature.
C6_WarningKeepsRow ==
  pc = "done" =>
    \A i \in DOMAIN calls :
      calls[i].out = "warn" =>
        /\ calls[i].val \in Range(ValuesOf(ret, calls[i].feat))
        /\ calls[i].feat \in DOMAIN warns
        /\ calls[i].val \in Range(warns[calls[i].feat])

\* no partition of any requested feature yields a row: the function raises
\* on it, or (bias mode) it is passed over
NothingToCollect ==
  \A f \in Range(args.features) :
    \A v \in Range(args.df.col[f]) : Raises(f, v) \/ Skipped(f, v)

\* C7: when no feature produces a row (no feature requested, every partition
\* failed or every partition skipped) the applier returns the empty table
\* with the two columns 'Feature Name' and 'Feature Value', and does not raise.
C7_EmptySweep ==
  (pc = "done" /\ NothingToCollect) =>
    /\ IsTable(ret)
    /\ ret.cols = <<"Feature Name", "Feature Value">>
    /\ ret.rows = <<>>

C7_Witness ==
  /\ pc = "done"
  /\ NothingToCollect
  /\ Len(args.features) = 2
  /\ DOMAIN errs = {args.features[1]}
  /\ calls # <<>>
  /\ \E v \in Range(args.df.col[args.features[2]]) : Skipped(args.features[2], v)

-----------------------------------------------------------------------------
(* Properties of the reports *)

\* the table a finished call handed back, out of its Styler if it was flagged
Returned == IF "styler_of" \in DOMAIN ret THEN ret.styler_of ELSE ret

Position(seq, x) == CHOOSE i \in DOMAIN seq : seq[i] = x

\* head columns first and in the order of head_names, the others after them
\* in ascending order of their code points
ColumnsOrdered(cols) ==
  \A i, j \in DOMAIN cols :
    i < j =>
      IF cols[i] \in Range(head_names)
      THEN cols[j] \in Range(head_names) =>
             Position(head_names, cols[i]) < Position(head_names, cols[j])
      ELSE /\ cols[j] \notin Range(head_names)
           /\ StrLess(cols[i], cols[j])

SortedReportOps == {"sort_report", "data_report", "performance_report", "bias_report"}

\* C3: every report that sort_report, data_report, performance_report or
\* bias_report returns has the head columns that are present first, in the
\* order 'Feature Name', 'Feature Value', 'Obs.', '<true> Mean', '<pred> Mean',
\* and every other column after them in ascending lexicographic order.
C3_ColumnOrder ==
  (pc = "done" /\ op \in SortedReportOps /\ ~IsException(ret)) =>
    ColumnsOrdered(Returned.cols)

\* a data report whose columns arrived out of order: the overview row put
\* 'Obs.' and the target statistics before 'Feature Name'
C3_Witness ==
  /\ pc = "done"
  /\ op = "data_report"
  /\ args.add_overview
  /\ IsTable(ret)
  /\ {"Obs.", "Feature Name", "Entropy", "y1 Mean", "y2 Mean"} \subseteq Range(ret.cols)
  /\ Len(ret.rows) > 2

OverviewRows(t) == SelectSeq(t.rows, LAMBDA r : r["Feature Name"] = "ALL FEATURES")

FeatureRows(t) == SelectSeq(t.rows, LAMBDA r : r["Feature Name"] # "ALL FEATURES")

FeaturesIn(t) == { FeatureRows(t)[i]["Feature Name"] : i \in DOMAIN FeatureRows(t) }

WithOverview ==
  /\ pc = "done"
  /\ op \in {"performance_report", "data_report"}
  /\ args.add_overview
  /\ IsTable(ret)

\* C4 (as the code has it): a report built with add_overview=True has one
\* overview row, whose 'Obs.' is the number of rows of the whole dataset for
\* any number of stratification features; that number equals the sum of
\* 'Obs.' over the per-feature rows exactly when the rows of one single
\* feature are in the report.
C4_OverviewObs ==
  WithOverview =>
    /\ Len(OverviewRows(ret)) = 1
    /\ OverviewRows(ret)[1]["Obs."] = args.df.n
    /\ (OverviewRows(ret)[1]["Obs."] = SumObs(FeatureRows(ret))
          <=> Cardinality(FeaturesIn(ret)) = 1)

\* two features with rows: the overview counts the dataset once
C4_Witness ==
  /\ WithOverview
  /\ Cardinality(FeaturesIn(ret)) = 2
  /\ args.df.n = MaxRows
  /\ SumObs(FeatureRows(ret)) = 2 * MaxRows
  /\ OverviewRows(ret)[1]["Obs."] = MaxRows

\* C4 as stated: the overview row's 'Obs.' is the number of rows of the whole
\* dataset and is never the sum of 'Obs.' over the per-feature rows.
C4_NeverTheSum ==
  WithOverview =>
    /\ OverviewRows(ret)[1]["Obs."] = args.df.n
    /\ OverviewRows(ret)[1]["Obs."] # SumObs(FeatureRows(ret))

\* C5: in a report with an overview row, the overview row and the
\* per-feature rows have the same columns, so that no cell of the
\* concatenation is undefined.
C5_OverviewColumns ==
  WithOverview =>
    \A i \in DOMAIN ret.rows : DOMAIN ret.rows[i] = Range(ret.cols)

ReportOps == {"bias_report", "performance_report", "summary_report"}

\* C8: bias_report, performance_report and summary_report called with a
\* pred_type that is neither "classification" nor "regression" raise the
\* configuration error, and no preprocessing, metric invocation or flagging
\* has happened by then.
C8_PredTypeFailFast ==
  (pc = "done" /\ op \in ReportOps /\ args.pred_type \notin validtypes) =>
    /\ ret = ConfigError
    /\ calls = <<>>
    /\ events = <<>>

\* a performance report refused for its pred_type, on arguments that a
\* supported pred_type has metric calls for
C8_Witness ==
  /\ pc = "done"
  /\ op = "performance_report"
  /\ args.pred_type = "multiclass"
  /\ args.has_y
  /\ Len(args.features) = 2
  /\ ret = ConfigError

\* C9: data_report raises the validation error whenever the feature table
\* and the target table differ in their number of rows, before any sweep of
\* the applier and any metric invocation.
C9_RowCountValidation ==
  (pc = "done" /\ op = "data_report" /\ args.df.n # args.ny) =>
    /\ ret = Mismatch
    /\ calls = <<>>
    /\ \A i \in DOMAIN events : events[i] # "apply_featureGroups"

C9_Witness ==
  /\ pc = "done"
  /\ op = "data_report"
  /\ args.df.n = MaxRows
  /\ args.ny = MaxRows + 1
  /\ Len(args.xcols) = 2
  /\ ret = Mismatch

-----------------------------------------------------------------------------
(* Properties of the flagger *)

\* the views rendered so far: the Styler once displayed, or the HTML that
\* apply_flag rendered itself
Views ==
  IF op # "apply_flag" \/ IsException(ret) THEN {}
  ELSE IF pc = "rendered" THEN {ret}
  ELSE IF "html_of" \in DOMAIN ret THEN {ret.html_of}
  ELSE {}

\* the measure a cell belongs to: its row label's measure in a table indexed
\* by (category, measure), its column label otherwise
MeasureOf(t, i, c) == IF Len(t.index[i]) = 2 THEN t.index[i][2] ELSE c

\* the entries of a classification list, lower-cased
LowerOf(lst) == { lower(CodePoints(lst[k])) : k \in DOMAIN lst }

LowerDiffs == LowerOf(diffs)

\* a name of the difference list, in any spelling of upper and lower case
DifferenceType(name) == lower(CodePoints(name)) \in LowerDiffs

\* C10: a cell of a difference-type measure is flagged if and only if its
\* value is not NaN and is not strictly between -0.1 and 0.1: -0.1 and 0.1
\* are flagged, 0.0 is not, 0.15 is, NaN is not.
C10_DifferenceFlagLaw ==
  \A view \in Views :
    \A i \in DOMAIN view.shown.rows, c \in Range(view.shown.cols) :
      DifferenceType(MeasureOf(view.shown, i, c)) =>
        (view.css[i][c] <=>
           /\ view.shown.rows[i][c] # <<>>
           /\ ~(-10 < view.shown.rows[i][c][1] /\ view.shown.rows[i][c][1] < 10))

LowerRatios == LowerOf(ratios)

\* a name of the ratio list, in any spelling of upper and lower case
RatioType(name) == lower(CodePoints(name)) \in LowerRatios

\* C11: a cell of a ratio-type measure is flagged if and only if its value
\* is not NaN and is not strictly between 0.8 and 1.2; a column 'PPV Ratio'
\* holding 0.7, 1.0, 1.3 has rows 0 and 2 flagged and row 1 not.
C11_RatioFlagLaw ==
  \A view \in Views :
    \A i \in DOMAIN view.shown.rows, c \in Range(view.shown.cols) :
      RatioType(MeasureOf(view.shown, i, c)) =>
        (view.css[i][c] <=>
           /\ view.shown.rows[i][c] # <<>>
           /\ ~(80 < view.shown.rows[i][c][1] /\ view.shown.rows[i][c][1] < 120))

\* the column 'PPV Ratio' holding 0.7, 1.0, 1.3 rendered with rows 0 and 2
\* flagged and row 1 not
C11_Witness ==
  \E view \in Views :
    /\ view.shown.cols = <<"PPV Ratio">>
    /\ [i \in DOMAIN view.shown.rows |-> view.shown.rows[i]["PPV Ratio"]]
         = << <<70>>, <<100>>, <<130>> >>
    /\ [i \in DOMAIN view.css |-> view.css[i]["PPV Ratio"]] = <<TRUE, FALSE, TRUE>>

LowerStatsHigh == LowerOf(stats_high)

LowerStatsLow == LowerOf(stats_low)

\* a name of the list of statistics for which high is good, and of the list
\* for which low is good, in any spelling of upper and lower case
StatHighType(name) == lower(CodePoints(name)) \in LowerStatsHigh

StatLowType(name) == lower(CodePoints(name)) \in LowerStatsLow

\* C12: a cell of a high-is-good statistic (consistency score) is flagged if
\* and only if its value is below 0.8, a cell of a low-is-good statistic
\* (between-group generalized entropy error) if and only if its value is
\* above 0.2; NaN is flagged for neither; in both label layouts.
C12_StatisticFlagLaw ==
  \A view \in Views :
    \A i \in DOMAIN view.shown.rows, c \in Range(view.shown.cols) :
      /\ StatHighType(MeasureOf(view.shown, i, c)) =>
           (view.css[i][c] <=>
              /\ view.shown.rows[i][c] # <<>>
              /\ view.shown.rows[i][c][1] < 80)
      /\ StatLowType(MeasureOf(view.shown, i, c)) =>
           (view.css[i][c] <=>
              /\ view.shown.rows[i][c] # <<>>
              /\ view.shown.rows[i][c][1] > 20)

\* a summary table rendered with its entropy-error row, holding 0.5, flagged
C12_Witness ==
  \E view \in Views :
    \E i \in DOMAIN view.shown.rows :
      /\ view.shown.index[i] = <<"Individual Fairness", "Between-Group Gen. Entropy Error">>
      /\ view.shown.rows[i]["Value"] = <<50>>
      /\ view.css[i]["Value"]

\* the category of the classification lists that a name belongs to in some
\* spelling of upper and lower case
Category(name) ==
  IF DifferenceType(name) THEN "difference"
  ELSE IF RatioType(name) THEN "ratio"
  ELSE IF StatHighType(name) THEN "high"
  ELSE IF StatLowType(name) THEN "low"
  ELSE "none"

\* a cell outside the range of a category
OutOfRange(cat, cell) ==
  /\ cell # <<>>
  /\ CASE cat = "difference" -> ~(-10 < cell[1] /\ cell[1] < 10)
       [] cat = "ratio"      -> ~(80 < cell[1] /\ cell[1] < 120)
       [] cat = "high"       -> cell[1] < 80
       [] cat = "low"        -> cell[1] > 20
       [] OTHER              -> FALSE

\* C13: for every entry of diffs, ratios, stats_high and stats_low and every
\* spelling of it in upper and lower case as a report label, the cell is
\* put into that entry's category and flagged by that category's range; a
\* 'Statistical Parity Difference' cell of 0.15 and a 'Disparate Impact
\* Ratio' cell of 0.5 are flagged.
C13_CaseInsensitiveClassification ==
  \A view \in Views :
    \A i \in DOMAIN view.shown.rows, c \in Range(view.shown.cols) :
      /\ Category(MeasureOf(view.shown, i, c)) # "none" =>
           (view.css[i][c] <=>
              OutOfRange(Category(MeasureOf(view.shown, i, c)), view.shown.rows[i][c]))
      /\ ( /\ MeasureOf(view.shown, i, c) = "Disparate Impact Ratio"
           /\ view.shown.rows[i][c] = <<50>> ) => view.css[i][c]

\* C14: a cell whose measure name, compared without regard to case, is in
\* none of the four classification lists is never flagged, whatever its
\* value and in either label layout.
C14_UnclassifiedNeverFlagged ==
  \A view \in Views :
    \A i \in DOMAIN view.shown.rows, c \in Range(view.shown.cols) :
      Category(MeasureOf(view.shown, i, c)) = "none" => ~view.css[i][c]

\* the column 'Selection Diff' rendered with a cell of 0.5, outside every
\* range, and no flag on it
C14_Witness ==
  \E view \in Views :
    \E i \in DOMAIN view.shown.rows :
      /\ "Selection Diff" \in Range(view.shown.cols)
      /\ view.shown.rows[i]["Selection Diff"] = <<50>>
      /\ ~view.css[i]["Selection Diff"]


\* C15: apply_flag leaves the table that the caller passed in as it was:
\* the same index, the same columns, the same cells, for either label
\* layout and for a unique or a non-unique row index.
C15_CallerTableUnchanged ==
  [][(pc = "called" /\ op = "apply_flag") => args'.df = args.df]_vars


\* C18: when the label layout is "index" and the row index of the bound
\* table is not unique, apply_flag turns the index into ordinary columns
\* before any flagging rule is applied: an instance bound in the index
\* layout never holds a table with a repeated row label.
C18_NonUniqueIndexMaterialized ==
  (op = "apply_flag" /\ pc # "called" /\ flagger.label_type = "index") =>
    is_unique(flagger.df[1].index)


\* C16: apply_flag raises the configuration error whenever sig_fig is not an
\* integer or is a boolean; the check comes before reset and binding, so the
\* instance (bound table, labels, layout) is as it was before the call and
\* the caller is handed no styled view.
C16_SigFigValidation ==
  \A k \in DOMAIN calls :
    calls[k].args.sig_fig.type # "int" =>
      /\ calls[k].ret = BadSigFig
      /\ calls[k].after = calls[k].before

\* a refused call on an instance that an earlier call left bound to a
\* summary table
C16_Witness ==
  \E k \in DOMAIN calls :
    /\ calls[k].args.sig_fig.type = "bool"
    /\ calls[k].before.label_type = "index"
    /\ calls[k].before.df # <<>>
    /\ calls[k].after = calls[k].before
    /\ calls[k].ret = BadSigFig

\* what a newly constructed instance shows for the arguments a
FreshView(a) == render(apply_flag(reset, a).ret, apply_flag(reset, a).flagger)

\* C17: every accepted apply_flag resets the instance before it binds, and
\* after any sequence of apply_flag and reset calls on one instance the
\* cells flagged for a table depend on that table and the arguments of its
\* call alone: a view of it is the view a new instance gives.
C17_StatelessAcrossCalls ==
  /\ \A k \in DOMAIN calls :
       calls[k].args.sig_fig.type = "int" =>
         calls[k].after = apply_flag(reset, calls[k].args).flagger
  /\ pc = "rendered" => ret.view = FreshView(calls[ret.of].args)


-----------------------------------------------------------------------------
(* Properties of the bias applier and of the row order *)

\* the column of f holds one distinct value besides the missing sentinel
OneGroup(f) == Cardinality(Range(args.df.col[f]) \ {"nan"}) = 1

\* C19: in __apply_biasGroups a feature whose column holds only one distinct
\* value besides "nan", with or without missing rows, has nothing to
\* compare: the metric function is never invoked for it and it has no row
\* in the result.
C19_BiasModeSkip ==
  (pc = "done" /\ BiasMode) =>
    \A f \in Range(args.features) :
      OneGroup(f) =>
        /\ \A i \in DOMAIN calls : calls[i].feat # f
        /\ RowsOf(ret, f) = <<>>


\* the features of a report call, in the order its sweep takes them
Processed ==
  IF op = "data_report"
  THEN SelectSeq(IF args.features = <<>> THEN args.xcols ELSE args.features[1],
                 LAMBDA f : f \in Range(args.xcols))
  ELSE args.features

\* C20: in an assembled report the overview row, when present, is the first
\* row; the per-feature rows follow, grouped by feature in the order the
\* features were processed; within one feature the rows are in ascending
\* order of the feature's distinct values; sort_report, which every report
\* passes through last, leaves the rows in that order.
C20_RowOrder ==
  (pc = "done" /\ op \in {"performance_report", "data_report", "bias_report"}
     /\ ~IsException(ret)) =>
    \A i, j \in DOMAIN Returned.rows :
      i < j =>
        /\ Returned.rows[j]["Feature Name"] # "ALL FEATURES"
        /\ Returned.rows[i]["Feature Name"] # "ALL FEATURES" =>
             /\ Position(Processed, Returned.rows[i]["Feature Name"])
                  <= Position(Processed, Returned.rows[j]["Feature Name"])
             /\ Returned.rows[i]["Feature Name"] = Returned.rows[j]["Feature Name"] =>
                  StrLess(Returned.rows[i]["Feature Value"],
                          Returned.rows[j]["Feature Value"])

\* a report over 'site' and then 'region': the overview row, the two rows
\* of 'site', the two rows of 'region'
C20_Witness ==
  /\ pc = "done"
  /\ op = "performance_report"
  /\ args.add_overview
  /\ IsTable(ret)
  /\ args.features = <<"site", "region">>
  /\ [i \in DOMAIN ret.rows |-> ret.rows[i]["Feature Name"]]
       = <<"ALL FEATURES", "site", "site", "region", "region">>
  /\ StrLess(ret.rows[2]["Feature Value"], ret.rows[3]["Feature Value"])
  /\ StrLess(ret.rows[4]["Feature Value"], ret.rows[5]["Feature Value"])


C22_LedgerResultPartition ==
  (pc = "done" /\ op = "apply_featureGroups") =>
    /\ \A f \in Range(args.features) :
         /\ (RowsOf(ret, f) # <<>>) # (f \in DOMAIN errs)
         /\ f \in DOMAIN errs => (f \notin DOMAIN warns /\ IsException(errs[f]))
    /\ DOMAIN errs \cup DOMAIN warns \subseteq Range(args.features)

\* two features: the function warns on one value of the first and raises on
\* the next, and warns on the second; the first is in the error ledger
\* alone, the second has its rows and its warning
C22_Witness ==
  /\ pc = "done"
  /\ op = "apply_featureGroups"
  /\ Len(args.features) = 2
  /\ DOMAIN errs = {args.features[1]}
  /\ DOMAIN warns = {args.features[2]}
  /\ RowsOf(ret, args.features[2]) # <<>>
  /\ \E k \in DOMAIN calls :
       calls[k].feat = args.features[1] /\ calls[k].out = "warn"

====
